---- MODULE Spec2Model ----
(***************************************************************************)
(* A model of GANDLF/parseConfig.py: the version comparator parse_version  *)
(* and the configuration normaliser parseConfig.                           *)
(*                                                                         *)
(* parseConfig is one straight-line function.  Each of its rules (one      *)
(* "if" block of the source) is one action; pc is the position in the      *)
(* function.  A rule either continues with the next rule, ends the run in  *)
(* sys.exit(message), or ends it in an uncaught Python exception.          *)
(*                                                                         *)
(* Encoding of the YAML document.  params is a record with one field per   *)
(* key the function reads or writes; a key that is not in the mapping has  *)
(* the tag t = "absent".  Every field keeps one shape, so that two         *)
(* configurations can be compared with =.                                  *)
(***************************************************************************)
EXTENDS Integers, Sequences, FiniteSets, TLC

VARIABLES
  params,          \* the mapping parseConfig loads, mutates and returns
  pc,              \* position in parseConfig (the rule to run next)
  outcome,         \* how the call ended: running, exit, raise, returned
  key,             \* the local variable `key` (bound by the loop of line 94)
  kfolds,          \* the local variable `kfolds` (lines 198, 202)
  run,             \* 1: the call on the document; 2: the call on its result
  doc,             \* the document handed to the first call
  first,           \* the configuration the first call returned
  gandlf_version   \* pkg_resources.require('GANDLF')[0].version

vars == <<params, pc, outcome, key, kfolds, run, doc, first, gandlf_version>>

----------------------------------------------------------------------------
(* Bounds of the model.                                                    *)

MaxVer == 2          \* version components range over 0..MaxVer
MaxSize == 2         \* entries of patch_size and resize range over 1..MaxSize
MaxDim == 2          \* patch_size and resize have 1..MaxDim entries
MaxLossEntries == 2  \* a loss_function mapping has up to this many entries
MaxAugEntries == 2   \* a data_augmentation mapping has up to this many entries
MaxFolds == 1        \* truthy fold counts range over 1..MaxFolds
MaxPreEntries == 2   \* a data_preprocessing mapping has up to this many entries

----------------------------------------------------------------------------
(* Values.                                                                 *)

NoInt == [t |-> "absent", n |-> 0]
IntV(n) == [t |-> "int", n |-> n]
NoStr == [t |-> "absent", s |-> ""]
StrV(s) == [t |-> "str", s |-> s]
NoList == [t |-> "absent", v |-> <<>>]
NoneList == [t |-> "none", v |-> <<>>]
ListV(s) == [t |-> "list", v |-> s]

\* A Python name that no statement has bound yet.
Unbound == "<unbound>"

\* Sequences over S of length lo..hi.
RECURSIVE SeqsOfLen(_, _)
SeqsOfLen(S, n) ==
  IF n = 0 THEN {<<>>}
  ELSE {Append(s, x) : s \in SeqsOfLen(S, n - 1), x \in S}

SeqsBetween(S, lo, hi) == UNION {SeqsOfLen(S, n) : n \in lo..hi}

\* Sequences without a repeated element: the keys of a mapping, in document order.
Distinct(s) == \A i, j \in 1..Len(s) : i # j => s[i] # s[j]

----------------------------------------------------------------------------
(* parse_version, lines 9-16.  A version string is the sequence of its     *)
(* dot-separated components, a component the sequence of its characters:   *)
(* 0..9 are the digits, Letter is any character int() rejects.             *)

Letter == 10

RECURSIVE join(_)
join(parts) ==
  IF parts = <<>> THEN <<>> ELSE Head(parts) \o join(Tail(parts))

version_string_split(version_string) ==
  IF Len(version_string) > 3
    THEN SubSeq(version_string, 1, Len(version_string) - 1)
    ELSE version_string

\* int(s) raises ValueError unless s is a non-empty string of digits.
int_ok(chars) == Len(chars) > 0 /\ \A i \in 1..Len(chars) : chars[i] \in 0..9

RECURSIVE int(_)
int(chars) ==
  IF chars = <<>> THEN 0
  ELSE 10 * int(SubSeq(chars, 1, Len(chars) - 1)) + chars[Len(chars)]

parse_version_ok(version_string) == int_ok(join(version_string_split(version_string)))

parse_version(version_string) == int(join(version_string_split(version_string)))

\* Variant of line 32 that also rejects the two boundaries.
IncompatibleStrict(min, max, gandlf_version_int) ==
  (min >= gandlf_version_int) \/ (max <= gandlf_version_int)

\* Line 32: the condition under which the engine is outside the declared range.
Incompatible(min, max, gandlf_version_int) ==
  (min > gandlf_version_int) \/ (max < gandlf_version_int)

----------------------------------------------------------------------------
(* Sub-mappings.  `has` is the set of keys of the mapping; a field whose   *)
(* key is not in `has` holds its empty value.                              *)

\* A value under loss_function: null or a mapping of options.
NoneLoss == [t |-> "none", has |-> {}, reduction |-> ""]
DictLoss(has, reduction) == [t |-> "dict", has |-> has, reduction |-> reduction]

\* A value under data_augmentation: null or a mapping of options.
NoneAug == [t |-> "none", has |-> {}, probability |-> 0]
DictAug(has, probability) == [t |-> "dict", has |-> has, probability |-> probability]

\* A value under data_preprocessing: null or a mapping with min / max.
NonePre == [t |-> "none", has |-> {}, min |-> "", max |-> ""]
DictPre(has, min, max) == [t |-> "dict", has |-> has, min |-> min, max |-> max]

\* A mapping is the sequence of its entries, in iteration order.
Entry(k, v) == [k |-> k, v |-> v]
NoMap == [t |-> "absent", d |-> <<>>]
NoneMap == [t |-> "none", d |-> <<>>]
DictV(d) == [t |-> "dict", d |-> d]

Keys(d) == {d[i].k : i \in 1..Len(d)}
Index(d, k) == CHOOSE i \in 1..Len(d) : d[i].k = k
Get(d, k) == d[Index(d, k)].v
Put(d, k, v) == [d EXCEPT ![Index(d, k)] = Entry(k, v)]

\* loss_function: absent, a scalar tag, or a mapping.
NoLossFn == [t |-> "absent", s |-> "", d |-> <<>>]
StrLossFn(s) == [t |-> "str", s |-> s, d |-> <<>>]
DictLossFn(d) == [t |-> "dict", s |-> "", d |-> d]

----------------------------------------------------------------------------
(* resize against psize, line 48: np.greater_equal(resize, psize).all().   *)
(* numpy compares element by element after broadcasting: two lists of the  *)
(* same length pair up position by position, a list of one entry is paired *)
(* with every entry of the other, and any other pair of lengths raises     *)
(* ValueError.                                                             *)

broadcastable(a, b) == Len(a) = Len(b) \/ Len(a) = 1 \/ Len(b) = 1
broadcast_len(a, b) == IF Len(a) = 1 THEN Len(b) ELSE Len(a)
at(a, i) == IF Len(a) = 1 THEN a[1] ELSE a[i]

\* Variant of line 48 with .any() in place of .all().
greater_equal_any(a, b) ==
  \E i \in 1..broadcast_len(a, b) : at(a, i) >= at(b, i)

\* Line 48.
greater_equal_all(a, b) ==
  \A i \in 1..broadcast_len(a, b) : at(a, i) >= at(b, i)

----------------------------------------------------------------------------
(* The loop of lines 94-100 over the keys of the loss_function mapping.    *)
(* The iterator walks the mapping the loop started with (entries), while   *)
(* params['loss_function'] (cur) is re-read at every use and is replaced   *)
(* by a string at line 100.  Indexing a string with 'mse' at line 96       *)
(* raises TypeError.  The result carries the last value bound to `key`.    *)

\* Variant of lines 96-98 that leaves the mse entry as it is.
mse_entry_keep(v) == v

\* Lines 96-98: the mse entry gets reduction = 'mean' unless it has one.
mse_entry(v) ==
  IF v.t = "none" \/ ~("reduction" \in v.has)
    THEN DictLoss({"reduction"}, "mean")
    ELSE v

\* Line 100: any other key replaces the whole value by that key.
other_key(cur, k) == StrLossFn(k)

RECURSIVE loss_loop(_, _, _, _)
loss_loop(entries, i, cur, k) ==
  IF i > Len(entries) THEN [err |-> "", lf |-> cur, key |-> k]
  ELSE IF entries[i].k = "mse"
    THEN IF cur.t = "str"
           THEN [err |-> "TypeError", lf |-> cur, key |-> "mse"]
           ELSE loss_loop(entries, i + 1,
                          DictLossFn(Put(cur.d, "mse", mse_entry(Get(cur.d, "mse")))),
                          "mse")
    ELSE loss_loop(entries, i + 1, other_key(cur, entries[i].k), entries[i].k)

\* Lines 105-108: the scalar 'mse' becomes the mapping {mse: {reduction: mean}}.
scalar_loss(lf) ==
  IF lf.s = "mse"
    THEN DictLossFn(<<Entry("mse", DictLoss({"reduction"}, "mean"))>>)
    ELSE lf

\* Lines 111-113: the default tag.
default_loss == StrLossFn("dc")

----------------------------------------------------------------------------
(* data_augmentation, lines 127-133.                                       *)

keysToSkip == {"normalize", "resample", "threshold", "clip"}

\* Lines 129-131: an entry without probability is replaced by {probability: 1}.
aug_entry(v) ==
  IF v.t = "none" \/ ~("probability" \in v.has)
    THEN DictAug({"probability"}, 1)
    ELSE v

----------------------------------------------------------------------------
(* data_preprocessing, lines 137-152: the body behind the guard of line    *)
(* 136.  The result is the mapping after the loop, or the fatal exit.      *)

thresholdOrClipDict == {"threshold", "clip"}

\* Lines 144-150.
pre_entry(v) ==
  LET m == IF v.t = "dict" THEN v ELSE DictPre({}, "", "")
      withMin == IF "min" \in m.has THEN m
                 ELSE DictPre(m.has \cup {"min"}, "sys.float_info.min", m.max)
  IN IF "max" \in withMin.has THEN withMin
     ELSE DictPre(withMin.has \cup {"max"}, withMin.min, "sys.float_info.max")

RECURSIVE pre_loop(_, _, _)
pre_loop(d, i, thresholdOrClip) ==
  IF i > Len(d) THEN [exit |-> FALSE, d |-> d]
  ELSE IF ~thresholdOrClip
    THEN IF d[i].k \in thresholdOrClipDict
           THEN pre_loop([d EXCEPT ![i] = Entry(d[i].k, pre_entry(d[i].v))], i + 1, TRUE)
           ELSE pre_loop(d, i + 1, thresholdOrClip)
    ELSE [exit |-> TRUE, d |-> d]

\* Line 136: the guard of the block.
pre_guard(d) == Len(d) < 0

----------------------------------------------------------------------------
(* Coercions of the scalar rules.                                          *)

\* str.replace('\'', '').replace('\"', ''), lines 240-241.
strip_quotes(s) == SelectSeq(s, LAMBDA c : c # "'" /\ c # "\"")

\* Lines 231-235: only the string 'True' turns q_verbose on.
q_verbose_of(v) == IF v = "str:True" THEN "bool:True" ELSE "bool:False"

\* bool(x), line 76, on a YAML boolean.
bool_of(v) == v

\* Lines 197-204: the fold count of the default (assigned to a local only).
default_kfolds == -10

----------------------------------------------------------------------------
(* The documents parseConfig is run on.  Base is a document every rule     *)
(* accepts; each family varies some of its keys over all their forms.      *)

NoVersion == [t |-> "absent", minimum |-> <<>>, maximum |-> <<>>]
VersionV(minimum, maximum) == [t |-> "dict", minimum |-> minimum, maximum |-> maximum]

NoModel == [t |-> "absent", architecture |-> NoStr, final_layer |-> NoStr, other |-> FALSE]
StrModel == [t |-> "str", architecture |-> NoStr, final_layer |-> NoStr, other |-> FALSE]
DictModel(architecture, final_layer, other) ==
  [t |-> "dict", architecture |-> architecture, final_layer |-> final_layer, other |-> other]

NoNested == [t |-> "absent", holdout |-> NoInt, validation |-> NoInt]
NoneNested == [t |-> "none", holdout |-> NoInt, validation |-> NoInt]
DictNested(holdout, validation) ==
  [t |-> "dict", holdout |-> holdout, validation |-> validation]

NoCommand == [t |-> "absent", s |-> <<>>]
CommandV(s) == [t |-> "str", s |-> s]

V3(a, b, c) == <<<<a>>, <<b>>, <<c>>>>

Base ==
  [version |-> VersionV(V3(0, 0, 0), V3(0, 2, 2)),
   class_list |-> "list",
   dimension |-> IntV(2),
   patch_size |-> ListV(<<1, 1>>),
   psize |-> NoList,
   resize |-> NoList,
   num_epochs |-> NoInt,
   patience |-> NoInt,
   batch_size |-> NoInt,
   amp |-> "absent",
   learning_rate |-> NoInt,
   loss_function |-> NoLossFn,
   opt |-> NoStr,
   data_augmentation |-> DictV(<<>>),
   data_preprocessing |-> DictV(<<>>),
   base_filters |-> NoInt,
   modelName |-> NoStr,
   which_model |-> NoStr,
   model |-> DictModel(StrV("unet"), StrV("sigmoid"), FALSE),
   kcross_validation |-> FALSE,
   nested_training |-> DictNested(IntV(1), IntV(1)),
   scheduler |-> NoStr,
   q_max_length |-> NoInt,
   q_samples_per_volume |-> NoInt,
   q_num_workers |-> NoInt,
   q_verbose |-> "absent",
   parallel_compute_command |-> NoCommand]

BaseEngine == V3(0, 1, 1)

\* Version strings: three numeric components, the same with a fourth
\* qualifier, one with a two-digit component, one that int() rejects.
VersionStrings ==
  {V3(0, b, c) : b, c \in 0..MaxVer}
  \cup {Append(V3(0, 1, c), <<Letter>>) : c \in 0..MaxVer}
  \cup {<<<<0>>, <<1, 0>>, <<0>>>>, <<<<0>>, <<1>>, <<Letter>>>>}

EngineVersions ==
  {V3(0, 1, c) : c \in 0..MaxVer} \cup {Append(V3(0, 1, 1), <<Letter>>)}

\* Lists of 1..MaxDim entries, and one that is longer than all of them.
Lists == SeqsBetween(1..MaxSize, 1, MaxDim) \cup {[i \in 1..MaxDim + 1 |-> 1]}

Models ==
  {NoModel, StrModel}
  \cup {DictModel(a, f, o) : a, f \in {NoStr, StrV(""), StrV("unet")}, o \in BOOLEAN}

Folds == {NoInt, IntV(0)} \cup {IntV(n) : n \in 1..MaxFolds}

Nesteds == {NoNested, NoneNested} \cup {DictNested(h, v) : h, v \in Folds}

LossValues ==
  {NoneLoss} \cup {DictLoss(has, IF "reduction" \in has THEN "sum" ELSE "") :
                     has \in SUBSET {"reduction", "weight"}}

LossKeys == {"mse", "dice", "clip"}

LossEntries ==
  {Entry("mse", v) : v \in LossValues} \cup {Entry(k, NoneLoss) : k \in LossKeys \ {"mse"}}

LossMappings ==
  {d \in SeqsBetween(LossEntries, 0, MaxLossEntries) : Distinct([i \in 1..Len(d) |-> d[i].k])}

LossFunctions ==
  {NoLossFn, StrLossFn("mse"), StrLossFn("dc")} \cup {DictLossFn(d) : d \in LossMappings}

AugValues ==
  {NoneAug, DictAug({}, 0), DictAug({"degrees"}, 0), DictAug({"probability", "degrees"}, 2)}

AugKeys == {"flip", "dice", "clip"}

AugMappings ==
  {d \in SeqsBetween({Entry(k, v) : k \in AugKeys, v \in AugValues}, 0, MaxAugEntries) :
     Distinct([i \in 1..Len(d) |-> d[i].k])}

Augmentations == {NoMap, NoneMap} \cup {DictV(d) : d \in AugMappings}

PreValues == {NonePre, DictPre({"min"}, "0", ""), DictPre({"min", "max"}, "0", "1")}

PreMappings ==
  {d \in SeqsBetween({Entry(k, v) : k \in {"threshold", "clip", "normalize"},
                                    v \in PreValues}, 0, MaxPreEntries) :
     Distinct([i \in 1..Len(d) |-> d[i].k])}

Preprocessings == {NoMap, NoneMap} \cup {DictV(d) : d \in PreMappings}

\* Required keys, the model mapping, the retired key (with and without augmentations).
DocsRequired(d) ==
  \E v \in {NoVersion, Base.version}, c \in {"absent", "list"},
     dm \in {NoInt, IntV(0), IntV(2)}, ps \in {NoList, Base.patch_size},
     m \in Models, k \in BOOLEAN, n \in {NoNested, NoneNested, Base.nested_training},
     a \in {DictV(<<>>), DictV(<<Entry("flip", NoneAug)>>)} :
    d = [Base EXCEPT !.version = v, !.class_list = c, !.dimension = dm, !.patch_size = ps,
                     !.model = m, !.kcross_validation = k, !.nested_training = n,
                     !.data_augmentation = a]

DocsVersion(d) ==
  \E lo, hi \in VersionStrings : d = [Base EXCEPT !.version = VersionV(lo, hi)]

DocsResize(d) ==
  \E ps \in Lists, r \in {NoList, NoneList} \cup {ListV(l) : l \in Lists} :
    d = [Base EXCEPT !.patch_size = ListV(ps), !.resize = r]

DocsLoss(d) ==
  \E lf \in LossFunctions, a \in Augmentations :
    d = [Base EXCEPT !.loss_function = lf, !.data_augmentation = a]

DocsPreprocessing(d) ==
  \E dp \in Preprocessings : d = [Base EXCEPT !.data_preprocessing = dp]

DocsNested(d) ==
  \E n \in Nesteds, k \in BOOLEAN :
    d = [Base EXCEPT !.nested_training = n, !.kcross_validation = k]

DocsScalars(d) ==
  \E r \in {NoList, ListV(<<1, 1>>)}, lf \in {NoLossFn, StrLossFn("mse")},
     mn \in {NoStr, StrV("unet")}, wm \in {NoStr, StrV("fcn")},
     qv \in {"absent", "str:True", "bool:True", "bool:False"},
     ne \in {NoInt, IntV(5)}, pt \in {NoInt, IntV(3)},
     cmd \in {NoCommand, CommandV(<<"'", "q", "\"">>)} :
    d = [Base EXCEPT !.resize = r, !.loss_function = lf, !.modelName = mn,
                     !.which_model = wm, !.q_verbose = qv, !.num_epochs = ne,
                     !.patience = pt, !.parallel_compute_command = cmd]

----------------------------------------------------------------------------
(* parseConfig, lines 18-244.                                              *)

Init ==
  /\ \/ DocsVersion(params) /\ gandlf_version \in EngineVersions
     \/ /\ \/ DocsRequired(params)
           \/ DocsResize(params)
           \/ DocsLoss(params)
           \/ DocsPreprocessing(params)
           \/ DocsNested(params)
           \/ DocsScalars(params)
        /\ gandlf_version = BaseEngine
  /\ doc = params
  /\ first = params
  /\ pc = "version"
  /\ outcome = [kind |-> "running", msg |-> ""]
  /\ key = Unbound
  /\ kfolds = 0
  /\ run = 1

\* sys.exit(msg): the run ends and nothing is returned.
Exit(msg) ==
  /\ outcome' = [kind |-> "exit", msg |-> msg]
  /\ pc' = "done"
  /\ UNCHANGED <<params, key, kfolds, run, doc, first, gandlf_version>>

\* An exception nothing catches: the run ends and nothing is returned.
Raise(exc) ==
  /\ outcome' = [kind |-> "raise", msg |-> exc]
  /\ pc' = "done"
  /\ UNCHANGED <<params, key, kfolds, run, doc, first, gandlf_version>>

\* The rule is done; the next one runs on the mapping p.
Goto(next, p) ==
  /\ pc' = next
  /\ params' = p
  /\ UNCHANGED <<outcome, key, kfolds, run, doc, first, gandlf_version>>

\* Lines 25-33.
version_gate ==
  /\ pc = "version"
  /\ IF params.version.t = "absent" THEN Exit("version")
     ELSE IF ~parse_version_ok(gandlf_version)
               \/ ~parse_version_ok(params.version.minimum)
               \/ ~parse_version_ok(params.version.maximum)
       THEN Raise("ValueError")
     ELSE IF Incompatible(parse_version(params.version.minimum),
                          parse_version(params.version.maximum),
                          parse_version(gandlf_version))
       THEN Exit("Incompatible version")
     ELSE Goto("class_list", params)

\* Lines 36-37.
class_list_required ==
  /\ pc = "class_list"
  /\ IF params.class_list = "absent" THEN Exit("class_list")
     ELSE Goto("dimension", params)

\* Lines 39-40: params['dimension'] is read without a presence test.
dimension_required ==
  /\ pc = "dimension"
  /\ IF params.dimension.t = "absent" THEN Raise("KeyError")
     ELSE IF params.dimension.n = 0 THEN Exit("dimension")
     ELSE Goto("patch_size", params)

\* Lines 42-45.
patch_size_required ==
  /\ pc = "patch_size"
  /\ IF params.patch_size.t # "absent"
       THEN Goto("resize", [params EXCEPT !.psize = params.patch_size])
       ELSE Exit("patch_size")

\* Lines 47-51.
resize_rule ==
  /\ pc = "resize"
  /\ IF params.resize.t # "absent"
       THEN IF params.resize.t = "none" THEN Raise("TypeError")
            ELSE IF ~broadcastable(params.resize.v, params.psize.v) THEN Raise("ValueError")
            ELSE IF ~greater_equal_all(params.resize.v, params.psize.v) THEN Exit("resize")
            ELSE Goto("num_epochs", params)
       ELSE Goto("num_epochs", [params EXCEPT !.resize = NoneList])

\* Lines 54-87: num_epochs, patience, batch_size, amp, learning_rate
\* (learning_rate in units of 0.001).  int() of an integer is that integer.
training_parameters ==
  /\ pc = "num_epochs"
  /\ LET num_epochs == IF params.num_epochs.t # "absent" THEN params.num_epochs ELSE IntV(100)
         patience == IF params.patience.t # "absent" THEN params.patience ELSE num_epochs
         batch_size == IF params.batch_size.t # "absent" THEN params.batch_size ELSE IntV(1)
         amp == IF params.amp # "absent" THEN bool_of(params.amp) ELSE "bool:False"
         learning_rate == IF params.learning_rate.t # "absent" THEN params.learning_rate
                          ELSE IntV(1)
     IN Goto("loss_function",
             [params EXCEPT !.num_epochs = num_epochs, !.patience = patience,
                            !.batch_size = batch_size, !.amp = amp,
                            !.learning_rate = learning_rate])

\* Lines 89-116.
loss_function_rule ==
  /\ pc = "loss_function"
  /\ IF params.loss_function.t # "absent"
       THEN IF params.loss_function.t = "dict"
              THEN IF Len(params.loss_function.d) > 0
                     THEN LET r == loss_loop(params.loss_function.d, 1,
                                             params.loss_function, key)
                          IN IF r.err # "" THEN Raise(r.err)
                             ELSE /\ pc' = "opt"
                                  /\ params' = [params EXCEPT !.loss_function = r.lf]
                                  /\ key' = r.key
                                  /\ UNCHANGED <<outcome, kfolds, run, doc, first,
                                                 gandlf_version>>
                     ELSE Goto("opt", [params EXCEPT !.loss_function = default_loss])
              ELSE Goto("opt", [params EXCEPT
                                  !.loss_function = scalar_loss(params.loss_function)])
       ELSE Goto("opt", [params EXCEPT !.loss_function = default_loss])

\* Lines 118-123.
opt_rule ==
  /\ pc = "opt"
  /\ Goto("data_augmentation",
          [params EXCEPT !.opt = IF params.opt.t # "absent" THEN params.opt
                                 ELSE StrV("adam")])

\* Lines 126-133: no loop; `key` is whatever the loop of line 94 left behind.
data_augmentation_rule ==
  /\ pc = "data_augmentation"
  /\ IF params.data_augmentation.t = "absent" THEN Raise("KeyError")
     ELSE IF params.data_augmentation.t = "none" THEN Raise("TypeError")
     ELSE IF Len(params.data_augmentation.d) > 0
       THEN IF key = Unbound THEN Raise("NameError")
            ELSE IF ~(key \in keysToSkip)
              THEN IF ~(key \in Keys(params.data_augmentation.d)) THEN Raise("KeyError")
                   ELSE Goto("data_preprocessing",
                             [params EXCEPT !.data_augmentation.d =
                                Put(@, key, aug_entry(Get(@, key)))])
              ELSE Goto("data_preprocessing", params)
     ELSE Goto("data_preprocessing", params)

\* Lines 136-152.
data_preprocessing_rule ==
  /\ pc = "data_preprocessing"
  /\ IF params.data_preprocessing.t = "absent" THEN Raise("KeyError")
     ELSE IF params.data_preprocessing.t = "none" THEN Raise("TypeError")
     ELSE IF pre_guard(params.data_preprocessing.d)
       THEN LET r == pre_loop(params.data_preprocessing.d, 1, FALSE)
            IN IF r.exit THEN Exit("threshold or clip")
               ELSE Goto("base_filters", [params EXCEPT !.data_preprocessing.d = r.d])
     ELSE Goto("base_filters", params)

\* Lines 155-160.
base_filters_rule ==
  /\ pc = "base_filters"
  /\ Goto("which_model",
          [params EXCEPT !.base_filters = IF params.base_filters.t # "absent"
                                            THEN params.base_filters ELSE IntV(30)])

\* Lines 162-175.
which_model_rule ==
  /\ pc = "which_model"
  /\ LET which_model == IF params.modelName.t # "absent" THEN params.modelName
                        ELSE IF params.which_model.t # "absent" THEN params.which_model
                        ELSE StrV("resunet")
     IN Goto("model", [params EXCEPT !.which_model = which_model])

\* len(params['model']), line 181.
model_len(m) ==
  (IF m.architecture.t # "absent" THEN 1 ELSE 0)
  + (IF m.final_layer.t # "absent" THEN 1 ELSE 0)
  + (IF m.other THEN 1 ELSE 0)

\* Lines 177-190.
model_required ==
  /\ pc = "model"
  /\ IF params.model.t # "absent"
       THEN IF params.model.t # "dict" THEN Exit("model")
            ELSE IF model_len(params.model) = 0 THEN Exit("model")
            ELSE IF params.model.architecture.t = "absent" THEN Raise("KeyError")
            ELSE IF params.model.architecture.s = "" THEN Exit("architecture")
            ELSE IF params.model.final_layer.t = "absent" THEN Raise("KeyError")
            ELSE IF params.model.final_layer.s = "" THEN Exit("final_layer")
            ELSE Goto("kcross_validation", params)
       ELSE Exit("model")

\* Variant of line 192 that never sees the retired key.
kcross_ignored(p) == FALSE

\* Line 192: the test of the retired key.
kcross_present(p) == p.kcross_validation

\* Lines 192-193.
kcross_validation_retired ==
  /\ pc = "kcross_validation"
  /\ IF kcross_present(params) THEN Exit("kcross_validation")
     ELSE Goto("nested_training", params)

\* Lines 195-204: the defaults are assigned to the local kfolds only; the
\* expression statements of lines 200 and 204 read the key and drop the value.
nested_training_rule ==
  /\ pc = "nested_training"
  /\ IF params.nested_training.t = "absent" THEN Raise("KeyError")
     ELSE IF params.nested_training.t = "none"
             \/ (params.nested_training.holdout.t = "absent"
                 /\ params.nested_training.validation.t = "absent")
       THEN Exit("nested_training")
     ELSE IF params.nested_training.holdout.t = "absent" THEN Raise("KeyError")
     ELSE IF params.nested_training.validation.t = "absent" THEN Raise("KeyError")
     ELSE /\ kfolds' = IF params.nested_training.holdout.n = 0
                          \/ params.nested_training.validation.n = 0
                         THEN default_kfolds ELSE kfolds
          /\ pc' = "scheduler"
          /\ UNCHANGED <<params, outcome, key, run, doc, first, gandlf_version>>

\* Lines 207-242: scheduler, the q_* keys and parallel_compute_command.
queue_parameters ==
  /\ pc = "scheduler"
  /\ Goto("return",
          [params EXCEPT
             !.scheduler = IF @.t # "absent" THEN @ ELSE StrV("triangle"),
             !.q_max_length = IF @.t # "absent" THEN @ ELSE IntV(100),
             !.q_samples_per_volume = IF @.t # "absent" THEN @ ELSE IntV(10),
             !.q_num_workers = IF @.t # "absent" THEN @ ELSE IntV(4),
             !.q_verbose = q_verbose_of(@),
             !.parallel_compute_command =
               IF @.t # "absent" THEN CommandV(strip_quotes(@.s)) ELSE CommandV(<<>>)])

\* Line 244.
return_params ==
  /\ pc = "return"
  /\ outcome' = [kind |-> "returned", msg |-> ""]
  /\ pc' = "done"
  /\ first' = IF run = 1 THEN params ELSE first
  /\ UNCHANGED <<params, key, kfolds, run, doc, gandlf_version>>

\* Lines 22-23 of a second call: the returned configuration is the document.
parseConfig_again ==
  /\ pc = "done"
  /\ outcome.kind = "returned"
  /\ run = 1
  /\ run' = 2
  /\ params' = first
  /\ pc' = "version"
  /\ outcome' = [kind |-> "running", msg |-> ""]
  /\ key' = Unbound
  /\ kfolds' = 0
  /\ UNCHANGED <<doc, first, gandlf_version>>

Next ==
  \/ version_gate
  \/ class_list_required
  \/ dimension_required
  \/ patch_size_required
  \/ resize_rule
  \/ training_parameters
  \/ loss_function_rule
  \/ opt_rule
  \/ data_augmentation_rule
  \/ data_preprocessing_rule
  \/ base_filters_rule
  \/ which_model_rule
  \/ model_required
  \/ kcross_validation_retired
  \/ nested_training_rule
  \/ queue_parameters
  \/ return_params
  \/ parseConfig_again

Spec == Init /\ [][Next]_vars

----------------------------------------------------------------------------
(* Vocabulary of the properties.                                           *)

\* The document the current call was given.
input == IF run = 1 THEN doc ELSE first

Returned == pc = "done" /\ outcome.kind = "returned"
Fatal(msg) == pc = "done" /\ outcome = [kind |-> "exit", msg |-> msg]

HasBoth(dp) == dp.t = "dict" /\ {"threshold", "clip"} \subseteq Keys(dp.d)

\* The required keys version, class_list, dimension and patch_size of d
\* satisfy their rules.
required_ok(d, engine) ==
  /\ d.version.t = "dict"
  /\ parse_version_ok(engine)
  /\ parse_version_ok(d.version.minimum)
  /\ parse_version_ok(d.version.maximum)
  /\ parse_version(d.version.minimum) <= parse_version(engine)
  /\ parse_version(engine) <= parse_version(d.version.maximum)
  /\ d.class_list # "absent"
  /\ d.dimension.t = "int" /\ d.dimension.n # 0
  /\ d.patch_size.t = "list"

\* The fields of d satisfy the rules of the normaliser, the mutual
\* exclusion of threshold and clip left aside.
well_formed(d, engine) ==
  /\ required_ok(d, engine)
  /\ \/ d.resize.t = "absent"
     \/ /\ d.resize.t = "list"
        /\ broadcastable(d.resize.v, d.patch_size.v)
        /\ \A i \in 1..broadcast_len(d.resize.v, d.patch_size.v) :
             at(d.resize.v, i) >= at(d.patch_size.v, i)
  /\ d.data_augmentation.t = "dict"
  /\ d.data_preprocessing.t = "dict"
  /\ d.model.t = "dict"
  /\ d.model.architecture.t = "str" /\ d.model.architecture.s # ""
  /\ d.model.final_layer.t = "str" /\ d.model.final_layer.s # ""
  /\ ~d.kcross_validation
  /\ d.nested_training.t = "dict"
  /\ d.nested_training.holdout.t = "int" \/ d.nested_training.validation.t = "int"

\* A document the specification calls valid.
valid(d, engine) == well_formed(d, engine) /\ ~HasBoth(d.data_preprocessing)

\* The last key of a loss_function mapping, in document order.
LastKey(lf) == lf.d[Len(lf.d)].k

\* An mse key that follows another key of the loss_function mapping.
MseAfterOther(lf) ==
  lf.t = "dict" /\ \E i \in 2..Len(lf.d) : lf.d[i].k = "mse"

\* A document every rule of parseConfig lets through.
accepted(d, engine) ==
  /\ well_formed(d, engine)
  /\ ~MseAfterOther(d.loss_function)
  /\ \/ Len(d.data_augmentation.d) = 0
     \/ /\ d.loss_function.t = "dict"
        /\ Len(d.loss_function.d) > 0
        /\ LastKey(d.loss_function) \in keysToSkip \cup Keys(d.data_augmentation.d)
  /\ d.nested_training.holdout.t = "int"
  /\ d.nested_training.validation.t = "int"

----------------------------------------------------------------------------
(* C2 (confirmed).  Version gate: once the gate has run on a document      *)
(* whose minimum, maximum and the engine version all parse, the run has    *)
(* ended in the fatal 'Incompatible version' exit exactly when the         *)
(* engine's key is below the minimum's key or above the maximum's key; for *)
(* minimum <= engine <= maximum, both boundaries included, the run went on *)
(* to the next rule.  The key of a version of more than three components   *)
(* is the key of the version without its last component, and the key of    *)
(* three one-digit components a.b.c is 100a + 10b + c.                     *)

KeyIsConcatenation(v) ==
  LET w == version_string_split(v)
  IN /\ Len(v) > 3 => w = SubSeq(v, 1, Len(v) - 1)
     /\ Len(v) <= 3 => w = v
     /\ (Len(w) = 3 /\ \A i \in 1..3 : Len(w[i]) = 1)
          => parse_version(v) = 100 * w[1][1] + 10 * w[2][1] + w[3][1]

C2_VersionGate ==
  (/\ input.version.t = "dict"
   /\ parse_version_ok(gandlf_version)
   /\ parse_version_ok(input.version.minimum)
   /\ parse_version_ok(input.version.maximum)
   /\ pc # "version")
  => LET e == parse_version(gandlf_version)
         lo == parse_version(input.version.minimum)
         hi == parse_version(input.version.maximum)
     IN /\ (e < lo \/ e > hi) => Fatal("Incompatible version")
        /\ (lo <= e /\ e <= hi) => ~Fatal("Incompatible version")
        /\ KeyIsConcatenation(gandlf_version)
        /\ KeyIsConcatenation(input.version.minimum)
        /\ KeyIsConcatenation(input.version.maximum)

\* The gate let through an engine whose four-component version has the key
\* of the declared maximum.
C2_Witness ==
  /\ pc = "class_list"
  /\ Len(gandlf_version) = 4
  /\ parse_version(gandlf_version) = parse_version(input.version.maximum)
  /\ parse_version(input.version.minimum) < parse_version(gandlf_version)

----------------------------------------------------------------------------
(* C3 (confirmed).  In every returned configuration resize is None exactly *)
(* when the document had no resize key, and otherwise is the document's    *)
(* value, at least patch_size at every position numpy compares; a document *)
(* whose resize is below patch_size at some position is never returned,    *)
(* and when its version, class_list, dimension and patch_size satisfy      *)
(* their rules the run ends in the fatal 'resize' exit.                    *)

TooSmall(d) ==
  /\ d.resize.t = "list"
  /\ d.patch_size.t = "list"
  /\ broadcastable(d.resize.v, d.patch_size.v)
  /\ \E i \in 1..broadcast_len(d.resize.v, d.patch_size.v) :
       at(d.resize.v, i) < at(d.patch_size.v, i)

C3_Resize ==
  /\ Returned =>
       /\ params.resize.t = "none" <=> input.resize.t = "absent"
       /\ params.resize.t # "none" =>
            /\ params.resize = input.resize
            /\ params.resize.t = "list"
            /\ \A i \in 1..broadcast_len(params.resize.v, params.patch_size.v) :
                 at(params.resize.v, i) >= at(params.patch_size.v, i)
  /\ TooSmall(input) =>
       /\ ~Returned
       /\ (pc = "done" /\ required_ok(input, gandlf_version)) => Fatal("resize")

\* A configuration was returned whose resize equals patch_size at one
\* position and exceeds it at another.
C3_Witness ==
  /\ Returned
  /\ run = 1
  /\ params.resize.t = "list"
  /\ Len(params.resize.v) = Len(params.patch_size.v)
  /\ \E i, j \in 1..Len(params.resize.v) :
       /\ params.resize.v[i] = params.patch_size.v[i]
       /\ params.resize.v[j] > params.patch_size.v[j]

----------------------------------------------------------------------------
(* C4 (confirmed).  A document that every rule lets through is returned,   *)
(* and in every returned configuration loss_function is: 'dc' when the key *)
(* was absent or an empty mapping; {mse: {reduction: mean}} when it was    *)
(* the scalar 'mse'; the same scalar for any other scalar; and for the     *)
(* one-entry mapping {mse: m}, with m null, empty or without reduction, a  *)
(* mapping whose mse entry has reduction = 'mean'.                         *)

LossAsClaimed(lf, out) ==
  /\ (lf.t = "absent" \/ (lf.t = "dict" /\ Len(lf.d) = 0)) => out = StrLossFn("dc")
  /\ (lf.t = "str" /\ lf.s = "mse")
       => out = DictLossFn(<<Entry("mse", DictLoss({"reduction"}, "mean"))>>)
  /\ (lf.t = "str" /\ lf.s # "mse") => out = lf
  /\ (/\ lf.t = "dict" /\ Len(lf.d) = 1 /\ lf.d[1].k = "mse"
      /\ (lf.d[1].v.t = "none" \/ ~("reduction" \in lf.d[1].v.has)))
       => /\ out.t = "dict"
          /\ Keys(out.d) = {"mse"}
          /\ Get(out.d, "mse").t = "dict"
          /\ "reduction" \in Get(out.d, "mse").has
          /\ Get(out.d, "mse").reduction = "mean"

C4_LossFunction ==
  /\ (pc = "done" /\ accepted(input, gandlf_version)) => Returned
  /\ Returned => LossAsClaimed(input.loss_function, params.loss_function)

\* A configuration was returned for a document whose loss_function was
\* {mse: {weight: ...}}, a mapping without reduction.
C4_Witness ==
  /\ Returned
  /\ run = 1
  /\ doc.loss_function = DictLossFn(<<Entry("mse", DictLoss({"weight"}, ""))>>)
  /\ Get(params.loss_function.d, "mse") = DictLoss({"reduction"}, "mean")

----------------------------------------------------------------------------
(* C9 (confirmed).  A document with a top-level kcross_validation key is   *)
(* never returned, whatever its other fields: the run never gets past the  *)
(* rule of the retired key; and when parseConfig lets the document through *)
(* once that key is taken out, the run ends in the fatal                   *)
(* 'kcross_validation' exit.                                               *)

C9_KcrossRetired ==
  input.kcross_validation =>
    /\ outcome.kind # "returned"
    /\ pc \notin {"nested_training", "scheduler", "return"}
    /\ (pc = "done" /\ accepted([input EXCEPT !.kcross_validation = FALSE], gandlf_version))
         => Fatal("kcross_validation")

\* The run of a document with the retired key, and without the
\* nested_training key, ended in the fatal 'kcross_validation' exit.
C9_Witness ==
  /\ Fatal("kcross_validation")
  /\ input.kcross_validation
  /\ input.nested_training.t = "absent"

----------------------------------------------------------------------------
(* C1 (code bug).  A document that lacks one of version, class_list,       *)
(* dimension, patch_size or model, and is valid once that key is put in,   *)
(* ends in the fatal exit whose message names the missing key.             *)

C1_MissingRequiredIsFatal ==
  pc = "done" =>
    /\ (/\ input.version.t = "absent"
        /\ valid([input EXCEPT !.version = Base.version], gandlf_version))
         => Fatal("version")
    /\ (/\ input.class_list = "absent"
        /\ valid([input EXCEPT !.class_list = Base.class_list], gandlf_version))
         => Fatal("class_list")
    /\ (/\ input.dimension.t = "absent"
        /\ valid([input EXCEPT !.dimension = Base.dimension], gandlf_version))
         => Fatal("dimension")
    /\ (/\ input.patch_size.t = "absent"
        /\ valid([input EXCEPT !.patch_size = Base.patch_size], gandlf_version))
         => Fatal("patch_size")
    /\ (/\ input.model.t = "absent"
        /\ valid([input EXCEPT !.model = Base.model], gandlf_version))
         => Fatal("model")

----------------------------------------------------------------------------
(* C5 (code bug).  A document whose data_preprocessing has both threshold  *)
(* and clip is never returned, and ends in the fatal 'threshold or clip'   *)
(* exit when its other fields are well formed; when exactly one of the two *)
(* is present, its value in the returned configuration is a mapping with   *)
(* min and max.                                                            *)

C5_ThresholdOrClip ==
  /\ HasBoth(input.data_preprocessing) =>
       /\ ~Returned
       /\ (pc = "done" /\ well_formed(input, gandlf_version)) => Fatal("threshold or clip")
  /\ Returned =>
       \A k \in thresholdOrClipDict :
         (/\ k \in Keys(input.data_preprocessing.d)
          /\ ~HasBoth(input.data_preprocessing))
           => /\ k \in Keys(params.data_preprocessing.d)
              /\ Get(params.data_preprocessing.d, k).t = "dict"
              /\ {"min", "max"} \subseteq Get(params.data_preprocessing.d, k).has

----------------------------------------------------------------------------
(* C6 (code bug).  Idempotence: the call on a returned configuration       *)
(* returns, and returns that configuration.                                *)

C6_Idempotent ==
  (run = 2 /\ pc = "done") => (Returned /\ params = first)

----------------------------------------------------------------------------
(* C7 (code bug).  In every returned configuration nested_training has     *)
(* holdout and validation, each the document's value when that was present *)
(* and truthy, and -10 when it was absent or falsy.                        *)

FoldsAsClaimed(in, out) ==
  out = IF in.t = "int" /\ in.n # 0 THEN in ELSE IntV(-10)

C7_NestedTrainingDefaults ==
  Returned =>
    /\ params.nested_training.t = "dict"
    /\ FoldsAsClaimed(input.nested_training.holdout, params.nested_training.holdout)
    /\ FoldsAsClaimed(input.nested_training.validation, params.nested_training.validation)

----------------------------------------------------------------------------
(* C8 (code bug).  A valid document with a non-empty data_augmentation,    *)
(* whatever its loss_function (absent, scalar, or a mapping the loop of    *)
(* lines 94-100 gets through), is returned; every augmentation key outside *)
(* the reserved four then maps to a mapping with probability, 1 when the   *)
(* entry was null, empty or had none and the supplied value otherwise, and *)
(* the entries of the reserved keys are unchanged.                         *)

AugAsClaimed(in, out) ==
  /\ Len(out) = Len(in)
  /\ \A i \in 1..Len(in) :
       /\ out[i].k = in[i].k
       /\ in[i].k \in keysToSkip => out[i].v = in[i].v
       /\ ~(in[i].k \in keysToSkip) =>
            /\ out[i].v.t = "dict"
            /\ "probability" \in out[i].v.has
            /\ out[i].v.probability =
                 IF in[i].v.t = "none" \/ ~("probability" \in in[i].v.has)
                   THEN 1 ELSE in[i].v.probability

C8_AugmentationProbability ==
  (/\ pc = "done"
   /\ valid(input, gandlf_version)
   /\ ~MseAfterOther(input.loss_function)
   /\ Len(input.data_augmentation.d) > 0)
  => /\ Returned
     /\ AugAsClaimed(input.data_augmentation.d, params.data_augmentation.d)

----------------------------------------------------------------------------
(* C10 (code bug).  For every non-empty loss_function mapping, of any      *)
(* number of entries in any order, the loss_function rule completes: it    *)
(* leaves the last key that is not mse as a string tag, or, when every key *)
(* is mse, a mapping whose mse entry is a mapping with reduction (kept as  *)
(* it was when it had one).                                                *)

\* The loss_function rule has run on a well-formed document.  Of the rules
\* such a document reaches, only the loop of lines 94-100 raises TypeError.
LossRuleRan ==
  /\ well_formed(input, gandlf_version)
  /\ pc \notin {"version", "class_list", "dimension", "patch_size", "resize",
                "num_epochs", "loss_function"}

LossMappingAsClaimed(lf, out) ==
  LET others == {i \in 1..Len(lf.d) : lf.d[i].k # "mse"}
  IN IF others # {}
       THEN out = StrLossFn(lf.d[CHOOSE i \in others : \A j \in others : j <= i].k)
       ELSE /\ out.t = "dict"
            /\ Keys(out.d) = {"mse"}
            /\ Get(out.d, "mse").t = "dict"
            /\ "reduction" \in Get(out.d, "mse").has
            /\ "reduction" \in Get(lf.d, "mse").has => Get(out.d, "mse") = Get(lf.d, "mse")

C10_LossMappingCompletes ==
  (/\ input.loss_function.t = "dict"
   /\ Len(input.loss_function.d) > 0
   /\ LossRuleRan)
  => /\ ~(pc = "done" /\ outcome = [kind |-> "raise", msg |-> "TypeError"])
     /\ LossMappingAsClaimed(input.loss_function, params.loss_function)

====
